---- MODULE Spec2Model ----
(***************************************************************************)
(* Model of modules/reporting/mongodb.py: the MongoDB reporting module.    *)
(* MongoDB.run persists one analysis report; every store operation of run  *)
(* is one step of a saver, so that concurrent runs interleave at the       *)
(* granularity of store operations.                                        *)
(***************************************************************************)
EXTENDS Integers, Sequences, FiniteSets, TLC

\* ------------------------------------------------------------------ bounds
\* Number of run() invocations explored in one behaviour.
MaxSaves == 2
\* Number of size-rejected retries of the remediation loop that are explored.
MaxRetries == 18

\* --------------------------------------------------------------- constants
MONGOSIZELIMIT == 16777216
MEGABYTE == 1048576
SCHEMA_VERSION == "1"

Procs == {1, 2}

\* ------------------------------------------------------ the document tree
\* A document is a tree of mappings, sequences and scalars.  A mapping keeps
\* its items in insertion order (a Python dict), as a sequence of items
\* [k |-> key, v |-> value].  A key records whether it is a str or not.
SK(name) == [ty |-> "str", v |-> name]
IK(name) == [ty |-> "int", v |-> name]

Str(n) == [t |-> "str", len |-> n]      \* a string of n characters
Bin(n) == [t |-> "bin", len |-> n]      \* n bytes of non-string data
Num(n) == [t |-> "num", v |-> n]        \* an integer
Oid(n) == [t |-> "oid", v |-> n]        \* an ObjectId
Obj == [t |-> "obj"]                    \* an object bson cannot encode
Dict(kv) == [t |-> "dict", kv |-> kv]
List(els) == [t |-> "list", els |-> els]
Item(k, v) == [k |-> k, v |-> v]

Range(s) == {s[i] : i \in 1..Len(s)}

\* key in dct
Has(d, k) == \E i \in 1..Len(d.kv) : d.kv[i].k = k
\* dct[key]
Get(d, k) == (CHOOSE it \in Range(d.kv) : it.k = k).v
\* dct[key] = val: an existing key keeps its position, a new one is appended
Put(d, k, val) ==
    IF Has(d, k)
    THEN Dict([i \in 1..Len(d.kv) |-> IF d.kv[i].k = k THEN Item(k, val) ELSE d.kv[i]])
    ELSE Dict(Append(d.kv, Item(k, val)))
\* del dct[key]
Del(d, k) == Dict(SelectSeq(d.kv, LAMBDA it : it.k # k))

\* One key of the documents carries a dot in its name.
DOTTED_NAMES == {"a.b"}

RECURSIVE SumSeq(_)
SumSeq(s) == IF s = <<>> THEN 0 ELSE Head(s) + SumSeq(Tail(s))

\* walk() of debug_dict_size: the characters of all strings beneath val
RECURSIVE walk(_)
walk(val) ==
    CASE val.t = "dict" -> SumSeq([i \in 1..Len(val.kv) |-> walk(val.kv[i].v)])
      [] val.t = "list" -> SumSeq([i \in 1..Len(val.els) |-> walk(val.els[i])])
      [] val.t = "str"  -> val.len
      [] OTHER          -> 0

\* The items as the mapping holds them, not sorted.
in_dict_order(items) == items

\* sorted(items, key=size, reverse=True): Python's sort is stable, also when
\* reversed, so items of equal size keep their dict order.
RECURSIVE InsertDesc(_, _)
InsertDesc(sorted, it) ==
    IF sorted = <<>> THEN <<it>>
    ELSE IF Head(sorted).size >= it.size
         THEN <<Head(sorted)>> \o InsertDesc(Tail(sorted), it)
         ELSE <<it>> \o sorted

RECURSIVE SortDesc(_)
SortDesc(items) ==
    IF items = <<>> THEN <<>>
    ELSE InsertDesc(SortDesc(SubSeq(items, 1, Len(items) - 1)), items[Len(items)])

\* debug_dict_size raises when, after taking the first element of a list, it
\* is not handed a mapping (IndexError, AttributeError, TypeError).
debug_dict_size_raises(dct) ==
    IF dct.t = "list"
    THEN dct.els = <<>> \/ dct.els[1].t # "dict"
    ELSE dct.t # "dict"

\* debug_dict_size: the (key, size) pairs of a mapping, largest first
debug_dict_size(dct) ==
    LET d == IF dct.t = "list" THEN dct.els[1] ELSE dct
    IN  SortDesc([i \in 1..Len(d.kv) |-> [key |-> d.kv[i].k, size |-> walk(d.kv[i].v)]])

\* ------------------------------------------------------------ fix_int2str
\* What the interpreter does with "for k, v in dictionary.iteritems()" and
\* with the pop and the assignment inside that loop:
\*   "no_iteritems"  the mapping has no iteritems (Python 3): AttributeError
\*   "skip"          the loop does not come across the key it re-inserted
\*   "revisit"       the loop comes across the re-inserted key later on
Builds == {"no_iteritems", "skip", "revisit"}

Unraised(val) == [v |-> val, raised |-> FALSE]
Raised(val) == [v |-> val, raised |-> TRUE]

\* The loop of fix_int2str over the keys todo of the mapping d, which it
\* changes in place.  A key that is not a str is popped and re-inserted as
\* str(k), and its value is not looked into; when str(k) is already a key the
\* mapping shrinks and the iterator raises RuntimeError at its next step.
\* The value of a str key is descended into: a mapping, or the mappings that
\* are elements of a list.
RECURSIVE fix_items(_, _, _)
RECURSIVE fix_els(_, _, _)
fix_child(val, build) ==
    CASE val.t = "dict" -> fix_items(val, [i \in 1..Len(val.kv) |-> val.kv[i].k], build)
      [] val.t = "list" -> fix_els(val, 1, build)
      [] OTHER          -> Unraised(val)

fix_els(lst, i, build) ==
    IF i > Len(lst.els) THEN Unraised(lst)
    ELSE IF lst.els[i].t # "dict" THEN fix_els(lst, i + 1, build)
    ELSE LET r == fix_child(lst.els[i], build)
             l == List([lst.els EXCEPT ![i] = r.v])
         IN  IF r.raised THEN Raised(l) ELSE fix_els(l, i + 1, build)

fix_items(d, todo, build) ==
    IF todo = <<>> THEN Unraised(d)
    ELSE LET k == Head(todo)
         IN  IF k.ty # "str"
             THEN LET moved == Put(Del(d, k), SK(k.v), Get(d, k))
                  IN  IF Has(d, SK(k.v)) THEN Raised(moved)
                      ELSE fix_items(moved,
                                     Tail(todo) \o (IF build = "revisit" THEN <<SK(k.v)>> ELSE <<>>),
                                     build)
             ELSE LET r == fix_child(Get(d, k), build)
                  IN  IF r.raised THEN Raised(Put(d, k, r.v))
                      ELSE fix_items(Put(d, k, r.v), Tail(todo), build)

\* fix_int2str(dictionary): the mapping as the call leaves it, and whether
\* the call raised.
fix_int2str(dictionary, build) ==
    IF build = "no_iteritems" THEN Raised(dictionary)
    ELSE fix_child(dictionary, build)

\* ---------------------------------------------------------- bounded inputs
\* The mappings the helpers are called on: up to two levels of mappings, with
\* str and non-str keys, the key 1 next to the key "1", strings and numbers,
\* and mappings that are elements of lists.
Leaves == {Str(2), Str(5), Num(7)}
Keys == {SK("a"), SK("1"), IK("1")}
Singles(vals) == {Dict(<<Item(k, v)>>) : k \in Keys, v \in vals}
Doubles(vals1, vals2) ==
    {d \in {Dict(<<Item(k1, v1), Item(k2, v2)>>) :
                k1 \in Keys, k2 \in Keys, v1 \in vals1, v2 \in vals2} :
        d.kv[1].k # d.kv[2].k}
Flat == {Dict(<<>>)} \cup Singles(Leaves) \cup Doubles(Leaves, Leaves)
Inner == Leaves \cup Flat \cup {List(<<Str(3), d>>) : d \in Flat}
Trees == Flat \cup Singles(Inner) \cup Doubles(Inner, Leaves)

\* ------------------------------------------------------------ the encoder
\* The first reason for which bson refuses to encode val, in document order;
\* "ok" when it encodes.  check_keys is set for inserts and not for updates.
RECURSIVE EncErrItems(_, _)
RECURSIVE EncErr(_, _)
EncErrItems(kv, check_keys) ==
    IF kv = <<>> THEN "ok"
    ELSE LET it == Head(kv)
             e  == IF it.k.ty # "str" THEN "string_keys"
                   ELSE IF check_keys /\ it.k.v \in DOTTED_NAMES THEN "dot"
                   ELSE EncErr(it.v, check_keys)
         IN  IF e # "ok" THEN e ELSE EncErrItems(Tail(kv), check_keys)

RECURSIVE EncErrEls(_, _)
EncErrEls(els, check_keys) ==
    IF els = <<>> THEN "ok"
    ELSE LET e == EncErr(Head(els), check_keys)
         IN  IF e # "ok" THEN e ELSE EncErrEls(Tail(els), check_keys)

EncErr(val, check_keys) ==
    CASE val.t = "dict" -> EncErrItems(val.kv, check_keys)
      [] val.t = "list" -> EncErrEls(val.els, check_keys)
      [] val.t = "obj"  -> "cannot_encode"
      [] OTHER          -> "ok"

\* The payload bytes of the encoded value: strings and binary data.
RECURSIVE BsonSize(_)
BsonSize(val) ==
    CASE val.t = "dict" -> SumSeq([i \in 1..Len(val.kv) |-> BsonSize(val.kv[i].v)])
      [] val.t = "list" -> SumSeq([i \in 1..Len(val.els) |-> BsonSize(val.els[i])])
      [] val.t \in {"str", "bin"} -> val.len
      [] OTHER -> 0

\* The outcome of insert_one(doc): "ok", or the InvalidDocument it raises.
\* The document is encoded first and its size is checked after that.
InsertOutcome(doc) ==
    LET e == EncErr(doc, TRUE)
    IN  IF e # "ok" THEN e
        ELSE IF BsonSize(doc) > MONGOSIZELIMIT THEN "too_large"
        ELSE "ok"

\* --------------------------------------------------------------- the inputs
\* The analysis results handed to run().  behavior.processes lists process
\* records, each with its inline calls (here: the number of call chunks).
Process(nchunks) == Dict(<<Item(SK("calls"), Num(nchunks))>>)

Info(id) == Dict(<<Item(SK("id"), Num(id)), Item(SK("version"), Str(5))>>)
\* results["info"]["options"]["main_task_id"] names the task of a distributed run
InfoMain(id, main) ==
    Dict(<<Item(SK("id"), Num(id)), Item(SK("version"), Str(5)),
           Item(SK("options"), Dict(<<Item(SK("main_task_id"), Num(main))>>))>>)
\* an info section without any string
InfoBare(id) == Dict(<<Item(SK("id"), Num(id))>>)

Behavior(procs) == Dict(<<Item(SK("processes"), List(procs))>>)

DocSmall ==
    Dict(<<Item(SK("info"), Info(1)),
           Item(SK("behavior"), Behavior(<<Process(1), Process(2)>>)),
           Item(SK("target"), Dict(<<Item(SK("name"), Str(10))>>))>>)
DocOther ==
    Dict(<<Item(SK("info"), Info(1)),
           Item(SK("network"), Dict(<<Item(SK("hosts"), Str(7))>>)),
           Item(SK("behavior"), Behavior(<<Process(1)>>))>>)
DocTask2 ==
    Dict(<<Item(SK("info"), Info(2)),
           Item(SK("behavior"), Behavior(<<Process(1)>>))>>)
DocDist ==
    Dict(<<Item(SK("info"), InfoMain(2, 1)),
           Item(SK("behavior"), Behavior(<<>>))>>)
\* a 20MB string in the top-level field logs
DocBigStr ==
    Dict(<<Item(SK("info"), Info(1)),
           Item(SK("behavior"), Behavior(<<Process(1)>>)),
           Item(SK("logs"), Str(20 * MEGABYTE))>>)
\* a 20MB string one level below the top-level field dropped
DocBigDict ==
    Dict(<<Item(SK("info"), Info(1)),
           Item(SK("behavior"), Behavior(<<Process(1)>>)),
           Item(SK("dropped"), Dict(<<Item(SK("name"), Str(10)),
                                      Item(SK("data"), Str(20 * MEGABYTE))>>))>>)
\* a 20MB string in an element of the top-level sequence procdump
DocBigList ==
    Dict(<<Item(SK("info"), Info(1)),
           Item(SK("behavior"), Behavior(<<>>)),
           Item(SK("procdump"), List(<<Dict(<<Item(SK("name"), Str(10))>>),
                                       Dict(<<Item(SK("name"), Str(10)),
                                              Item(SK("data"), Str(20 * MEGABYTE))>>)>>))>>)
StringNames ==
    <<"s01", "s02", "s03", "s04", "s05", "s06", "s07", "s08", "s09",
      "s10", "s11", "s12", "s13", "s14", "s15", "s16", "s17", "s18">>
\* eighteen strings of 1,000,000 characters below the top-level field strings
DocManyStr ==
    Dict(<<Item(SK("info"), Info(1)),
           Item(SK("behavior"), Behavior(<<>>)),
           Item(SK("strings"), Dict([i \in 1..Len(StringNames) |->
                Item(SK(StringNames[i]), Str(1000000))]))>>)
\* no string at all, an empty sequence first, 20MB of binary data
DocEmptyList ==
    Dict(<<Item(SK("statistics"), List(<<>>)),
           Item(SK("info"), InfoBare(1)),
           Item(SK("behavior"), Behavior(<<>>)),
           Item(SK("memory"), Bin(20 * MEGABYTE))>>)
\* no string at all, the info section first, 20MB of binary data in it
DocBareInfo ==
    Dict(<<Item(SK("info"), Dict(<<Item(SK("id"), Num(1)),
                                   Item(SK("blob"), Bin(20 * MEGABYTE))>>)),
           Item(SK("behavior"), Behavior(<<>>))>>)
\* a nested key with a dot in its name
DocDot ==
    Dict(<<Item(SK("info"), Info(1)),
           Item(SK("behavior"), Behavior(<<Process(1)>>)),
           Item(SK("CAPE"), Dict(<<Item(SK("a.b"), Str(5))>>))>>)
\* a key with a dot in its name, in the info section
DocDotInfo ==
    Dict(<<Item(SK("info"), Dict(<<Item(SK("id"), Num(1)), Item(SK("a.b"), Str(5))>>)),
           Item(SK("behavior"), Behavior(<<Process(1)>>))>>)
\* an object bson cannot encode, in the behavior section
DocObj ==
    Dict(<<Item(SK("info"), Info(1)),
           Item(SK("behavior"), Dict(<<Item(SK("processes"), List(<<Process(1)>>)),
                                       Item(SK("summary"), Obj)>>)),
           Item(SK("target"), Dict(<<Item(SK("name"), Str(10))>>))>>)
\* a mapping key that is an integer
DocIntKey ==
    Dict(<<Item(SK("info"), Info(1)),
           Item(SK("behavior"), Behavior(<<>>)),
           Item(SK("stats"), Dict(<<Item(IK("5"), Str(3))>>))>>)

Results ==
    {DocSmall, DocOther, DocTask2, DocDist, DocBigStr, DocBigDict, DocBigList,
     DocManyStr, DocEmptyList, DocBareInfo, DocDot, DocDotInfo, DocObj, DocIntKey}

\* The results of the runs that overlap.
ResultsConcurrent == {DocTask2, DocBigDict, DocDot}

\* ------------------------------------------------------------------ state
VARIABLES
    analysis,        \* db.analysis: the stored documents
    calls,           \* db.calls: the identifiers of the stored call records
    cuckoo_schema,   \* db.cuckoo_schema: the versions of the stored markers
    indexes,         \* the indexes of db.analysis
    next_oid,        \* the next ObjectId to be generated
    nsaves,          \* the number of run() invocations so far
    options,         \* self.options: the fix_large_docs option of the module
    found_by,        \* history: what the find of the run that inserted a document found
    call,            \* one helper called on its own: its argument and what it did
    sv               \* sv[p]: the local state of the run() invocation of saver p

vars == <<analysis, calls, cuckoo_schema, indexes, next_oid, nsaves, options, found_by, call, sv>>

NoKey == SK("")

\* No helper has been called on its own.
NoCall ==
    [fn |-> "none", arg |-> Dict(<<>>), dictionary |-> Dict(<<>>), applied |-> 0,
     raised |-> FALSE, first |-> Dict(<<>>), sizes |-> <<>>]
LogEntry(msg, key, child, size) == [msg |-> msg, key |-> key, child |-> child, size |-> size]

\* The task identifier of a stored document; 0 when it has none.
TaskOf(doc) ==
    IF Has(doc, SK("info")) /\ Get(doc, SK("info")).t = "dict"
       /\ Has(Get(doc, SK("info")), SK("id"))
    THEN Get(Get(doc, SK("info")), SK("id")).v
    ELSE 0

IdOf(doc) == Get(doc, SK("_id")).v

\* db.analysis.find({"info.id": task}), in the order of insertion
RECURSIVE SeqOfIds(_, _)
SeqOfIds(docs, n) ==
    IF n = 0 THEN <<>>
    ELSE LET rest == SeqOfIds(docs, n - 1)
         IN  IF \E d \in docs : IdOf(d) = n
             THEN Append(rest, CHOOSE d \in docs : IdOf(d) = n)
             ELSE rest
\* a find that matches no document
find_nothing(task) == <<>>

\* a query without its filter
find_all(task) == SeqOfIds(analysis, next_oid)

find(task) == SeqOfIds({d \in analysis : TaskOf(d) = task}, next_oid)

\* the call records a stored document references:
\* process["calls"] for process in analysis["behavior"].get("processes", [])
ProcessesOf(doc) ==
    LET b == Get(doc, SK("behavior"))
    IN  IF Has(b, SK("processes")) THEN Get(b, SK("processes")).els ELSE <<>>
CallsOfProcess(process) == {c.v : c \in Range(Get(process, SK("calls")).els)}
CallsOf(doc) ==
    IF Has(doc, SK("behavior"))
    THEN UNION {CallsOfProcess(pr) : pr \in Range(ProcessesOf(doc))}
    ELSE {}

\* results["info"]["options"]["main_task_id"], 0 when absent
main_task_id(results) ==
    LET info == Get(results, SK("info"))
    IN  IF Has(info, SK("options")) /\ Has(Get(info, SK("options")), SK("main_task_id"))
        THEN Get(Get(info, SK("options")), SK("main_task_id")).v
        ELSE 0

\* the task a run() of results writes to
EffectiveTask(results) ==
    IF main_task_id(results) # 0 THEN main_task_id(results) ELSE TaskOf(results)

IdleSaver ==
    [pc |-> "idle", conn |-> "none", results |-> Dict(<<>>),
     report |-> Dict(<<>>), has_schema |-> FALSE, analyses |-> <<>>, pi |-> 1,
     parent_key |-> NoKey, size_filter |-> 0, keys |-> <<>>, obj_id |-> 0,
     log |-> {},
     \* history of this invocation, kept for the properties
     no |-> 0, task |-> 0, prior_ids |-> {}, prior_calls |-> {}, new_calls |-> {},
     ops |-> <<>>, mismatch |-> FALSE, tried |-> Dict(<<>>), retries |-> 0,
     outcome |-> "", find_ids |-> {},
     \* the invocation of this saver before this one
     prev |-> [results |-> Dict(<<>>), outcome |-> "", new_calls |-> {},
               prior_calls |-> {}, no |-> 0]]

InFlight(p) == sv[p].pc \notin {"idle", "done", "raised", "crashed"}

Init ==
    /\ analysis = {}
    /\ calls = {}
    /\ cuckoo_schema \in {<<>>, <<SCHEMA_VERSION>>, <<"0">>}
    /\ indexes = {}
    /\ next_oid = 1
    /\ nsaves = 0
    /\ options \in [fix_large_docs : BOOLEAN]
    /\ found_by = {}
    /\ call = NoCall
    /\ sv = [p \in Procs |-> IdleSaver]

Set(p, rec) == sv' = [sv EXCEPT ![p] = rec]

\* run() is entered and connect() opens the connection.
Enter(p, results) ==
    /\ ~InFlight(p)
    /\ nsaves < MaxSaves
    /\ nsaves' = nsaves + 1
    /\ Set(p, [IdleSaver EXCEPT
                 !.pc = "list_collections", !.conn = "open", !.results = results,
                 !.no = nsaves + 1,
                 !.prev = [results |-> sv[p].results, outcome |-> sv[p].outcome,
                           new_calls |-> sv[p].new_calls,
                           prior_calls |-> sv[p].prior_calls, no |-> sv[p].no],
                 !.task = EffectiveTask(results),
                 !.prior_ids = {IdOf(d) : d \in {x \in analysis : TaskOf(x) = EffectiveTask(results)}},
                 !.prior_calls = UNION {CallsOf(d) : d \in {x \in analysis : TaskOf(x) = EffectiveTask(results)}}])
    /\ UNCHANGED <<analysis, calls, cuckoo_schema, indexes, next_oid, options, found_by, call>>

\* run() of one saver at a time
Run(p) ==
    /\ \A q \in Procs : ~InFlight(q)
    /\ \E results \in Results : Enter(p, results)

\* run() of a saver while others are running: saver 1 runs one save after
\* another, and every other saver runs one save that may overlap them.
RunConcurrently(p) ==
    /\ p = 1 \/ sv[p].pc = "idle"
    /\ \E results \in ResultsConcurrent : Enter(p, results)

\* collection_names = self.db.list_collection_names()
ListCollections(p) ==
    /\ sv[p].pc = "list_collections"
    /\ Set(p, [sv[p] EXCEPT !.pc = "schema", !.has_schema = cuckoo_schema # <<>>])
    /\ UNCHANGED <<analysis, calls, cuckoo_schema, indexes, next_oid, nsaves, options, found_by, call>>

\* The schema step: an existing marker is compared with SCHEMA_VERSION and
\* the CuckooReportError of a mismatch is constructed but not raised; a
\* missing marker is inserted.
SchemaStep(p) ==
    /\ sv[p].pc = "schema"
    /\ IF sv[p].has_schema
       THEN /\ Set(p, [sv[p] EXCEPT !.pc = "insert_calls",
                                    !.mismatch = cuckoo_schema[1] # SCHEMA_VERSION])
            /\ UNCHANGED cuckoo_schema
       ELSE /\ cuckoo_schema' = Append(cuckoo_schema, SCHEMA_VERSION)
            /\ Set(p, [sv[p] EXCEPT !.pc = "insert_calls",
                                    !.ops = Append(@, "insert_marker")])
    /\ UNCHANGED <<analysis, calls, indexes, next_oid, nsaves, options, found_by, call>>

\* insert_calls(report, mongo_calls_db): every chunk of calls of every process
\* record is stored as a call record under a fresh identifier, and the process
\* records are returned with the identifiers in place of the inline calls.
\* The result is [processes, ids, oid]: the new process records, the
\* identifiers inserted, and the next free identifier.
RECURSIVE insert_calls(_, _)
insert_calls(processes, oid) ==
    IF processes = <<>> THEN [processes |-> <<>>, ids |-> {}, oid |-> oid]
    ELSE LET n    == Get(Head(processes), SK("calls")).v
             mine == [i \in 1..n |-> Oid(oid + i - 1)]
             rest == insert_calls(Tail(processes), oid + n)
         IN  [processes |-> <<Put(Head(processes), SK("calls"), List(mine))>> \o rest.processes,
              ids       |-> (oid..(oid + n - 1)) \cup rest.ids,
              oid       |-> rest.oid]

\* report = get_json_document(results); the network section is defaulted;
\* the call records are inserted and referenced from report["behavior"].
InsertCalls(p) ==
    /\ sv[p].pc = "insert_calls"
    /\ LET copy     == sv[p].results
           report   == IF Has(copy, SK("network")) THEN copy
                       ELSE Put(copy, SK("network"), Dict(<<>>))
           behavior == Get(report, SK("behavior"))
           new      == insert_calls(Get(behavior, SK("processes")).els, next_oid)
       IN  /\ calls' = calls \cup new.ids
           /\ next_oid' = new.oid
           /\ Set(p, [sv[p] EXCEPT
                        !.pc = "create_index",
                        !.report = Put(report, SK("behavior"),
                                       Put(behavior, SK("processes"), List(new.processes))),
                        !.new_calls = new.ids,
                        !.ops = IF new.ids = {} THEN @ ELSE Append(@, "insert_calls")])
    /\ UNCHANGED <<analysis, cuckoo_schema, indexes, nsaves, options, found_by, call>>

\* The two create_index calls; creating an existing index is a no-op.
CreateIndexes(p) ==
    /\ sv[p].pc = "create_index"
    /\ indexes' = indexes \cup {"info.id", "ALL_SHA256"}
    /\ Set(p, [sv[p] EXCEPT !.pc = "find", !.ops = Append(@, "create_index")])
    /\ UNCHANGED <<analysis, calls, cuckoo_schema, next_oid, nsaves, options, found_by, call>>

\* The task of a distributed run replaces report["info"]["id"]; then
\* analyses = db.analysis.find({"info.id": id}), read when the loop starts.
Find(p) ==
    /\ sv[p].pc = "find"
    /\ LET main   == main_task_id(sv[p].results)
           info   == Get(sv[p].report, SK("info"))
           report == IF main # 0
                     THEN Put(sv[p].report, SK("info"), Put(info, SK("id"), Num(main)))
                     ELSE sv[p].report
           found  == find(TaskOf(report))
       IN  Set(p, [sv[p] EXCEPT
                     !.pc = IF found = <<>> THEN "insert" ELSE "evict",
                     !.report = report, !.analyses = found, !.pi = 1,
                     !.find_ids = {IdOf(found[i]) : i \in 1..Len(found)}])
    /\ UNCHANGED <<analysis, calls, cuckoo_schema, indexes, next_oid, nsaves, options, found_by, call>>

\* for process in analysis["behavior"].get("processes", []):
\*     db.calls.delete_many({"_id": {"$in": process["calls"]}})
\* A stored document without a behavior section raises KeyError.
\* a delete_many that deletes nothing
delete_many_nothing(ids) == calls

delete_many(ids) == calls \ ids

EvictCalls(p) ==
    /\ sv[p].pc = "evict"
    /\ LET analysis_doc == Head(sv[p].analyses)
       IN  IF ~Has(analysis_doc, SK("behavior"))
           THEN /\ Set(p, [sv[p] EXCEPT !.pc = "raised", !.outcome = "raised"])
                /\ UNCHANGED calls
           ELSE /\ sv[p].pi <= Len(ProcessesOf(analysis_doc))
                /\ calls' = delete_many(CallsOfProcess(ProcessesOf(analysis_doc)[sv[p].pi]))
                /\ Set(p, [sv[p] EXCEPT !.pi = @ + 1, !.ops = Append(@, "delete_calls")])
    /\ UNCHANGED <<analysis, cuckoo_schema, indexes, next_oid, nsaves, options, found_by, call>>

\* a delete_one that deletes nothing
delete_one_nothing(id) == analysis

\* db.analysis.delete_one({"_id": analysis["_id"]})
delete_one(id) == {d \in analysis : IdOf(d) # id}

\* a loop over the processes that is left before it started
processes_skipped(p, analysis_doc) == TRUE

\* the loop over the processes of the document has deleted the call records
\* of every process
processes_done(p, analysis_doc) == sv[p].pi > Len(ProcessesOf(analysis_doc))

EvictDoc(p) ==
    /\ sv[p].pc = "evict"
    /\ LET analysis_doc == Head(sv[p].analyses)
       IN  /\ Has(analysis_doc, SK("behavior"))
           /\ processes_done(p, analysis_doc)
           /\ analysis' = delete_one(IdOf(analysis_doc))
           /\ Set(p, [sv[p] EXCEPT
                        !.pc = IF Tail(sv[p].analyses) = <<>> THEN "insert" ELSE "evict",
                        !.analyses = Tail(@), !.pi = 1,
                        !.ops = Append(@, "delete_doc")])
    /\ UNCHANGED <<calls, cuckoo_schema, indexes, next_oid, nsaves, options, found_by, call>>

\* debug_dict_size(dct)[0]: the largest key and its size; raises IndexError
\* on an empty mapping.
largest_raises(dct) ==
    \/ debug_dict_size_raises(dct)
    \/ (IF dct.t = "list" THEN dct.els[1] ELSE dct).kv = <<>>
largest(dct) == debug_dict_size(dct)[1]

\* db.analysis.insert_one(doc) adds a fresh _id to a document that has none.
with_id(doc, oid) == IF Has(doc, SK("_id")) THEN doc ELSE Put(doc, SK("_id"), Oid(oid))

\* an option that defaults to remediation
fix_large_docs_always == TRUE

\* self.options.get("fix_large_docs", False)
fix_large_docs == options.fix_large_docs

\* The direct insert and the dispatch on its rejection.  ensure_valid_utf8
\* rewrites characters in place and leaves the tree as it is.
Insert(p) ==
    /\ sv[p].pc = "insert"
    /\ LET report  == with_id(sv[p].report, next_oid)
           outcome == InsertOutcome(report)
           top     == largest(report)
           me      == [sv[p] EXCEPT !.report = report, !.tried = report,
                                    !.ops = Append(@, "insert")]
       IN  /\ next_oid' = next_oid + 1
           /\ CASE outcome = "ok" ->
                     /\ analysis' = analysis \cup {report}
                     /\ Set(p, [me EXCEPT !.pc = "close", !.outcome = "stored"])
                [] outcome \in {"cannot_encode", "dot"} ->
                     /\ Set(p, [me EXCEPT !.pc = "loop_saver"])
                     /\ UNCHANGED analysis
                [] OTHER ->
                     /\ UNCHANGED analysis
                     /\ IF ~fix_large_docs
                        THEN Set(p, [me EXCEPT
                                 !.pc = "close", !.outcome = "size_logged",
                                 !.parent_key = top.key,
                                 !.log = @ \cup {LogEntry("largest", top.key, NoKey, top.size \div MEGABYTE)}])
                        ELSE Set(p, [me EXCEPT
                                 !.pc = "rem_delete", !.parent_key = top.key,
                                 !.size_filter = MONGOSIZELIMIT])
    /\ found_by' = found_by \cup {[id |-> IdOf(with_id(sv[p].report, next_oid)),
                                   found |-> sv[p].find_ids]}
    /\ UNCHANGED <<calls, cuckoo_schema, indexes, nsaves, options, call>>

\* a test that every size passes
exceeds_always(csize, size_filter) == TRUE

\* if csize > size_filter
exceeds(csize, size_filter) == csize > size_filter

\* The deletions of one pass over the elements of report[parent_key], a list:
\* from each element its largest key is deleted when that exceeds size_filter.
\* An exception ends the pass and keeps the deletions made before it.
\* The result is [els, log, raised].
RECURSIVE delete_in_elements(_, _, _, _)
delete_in_elements(els, j, parent_key, size_filter) ==
    IF j > Len(els) THEN [els |-> els, log |-> {}, raised |-> FALSE]
    ELSE LET parent_dict == els[j]
         IN  IF largest_raises(parent_dict)
             THEN [els |-> els, log |-> {}, raised |-> TRUE]
             ELSE LET child == largest(parent_dict)
                  IN  IF exceeds(child.size, size_filter)
                      THEN IF parent_dict.t # "dict"
                           THEN [els |-> els,
                                 log |-> {LogEntry("deleted", parent_key, child.key, child.size)},
                                 raised |-> TRUE]
                           ELSE LET rest == delete_in_elements(
                                              [els EXCEPT ![j] = Del(parent_dict, child.key)],
                                              j + 1, parent_key, size_filter)
                                IN  [rest EXCEPT !.log = @ \cup
                                       {LogEntry("deleted", parent_key, child.key, child.size)}]
                      ELSE delete_in_elements(els, j + 1, parent_key, size_filter)

\* One pass of deletions of the remediation loop: [report, log, raised].
delete_problem_keys(report, parent_key, size_filter) ==
    LET parent == Get(report, parent_key)
    IN  IF parent.t = "list"
        THEN LET r == delete_in_elements(parent.els, 1, parent_key, size_filter)
             IN  [report |-> Put(report, parent_key, List(r.els)),
                  log |-> r.log, raised |-> r.raised]
        ELSE IF largest_raises(parent)
             THEN [report |-> report, log |-> {}, raised |-> TRUE]
             ELSE LET child == largest(parent)
                  IN  IF exceeds(child.size, size_filter)
                      THEN [report |-> Put(report, parent_key, Del(parent, child.key)),
                            log |-> {LogEntry("deleted", parent_key, child.key, child.size)},
                            raised |-> FALSE]
                      ELSE [report |-> report, log |-> {}, raised |-> FALSE]

\* The deletions of one pass of the remediation loop; an exception is logged
\* and leaves the loop.
RemDelete(p) ==
    /\ sv[p].pc = "rem_delete"
    /\ LET r == delete_problem_keys(sv[p].report, sv[p].parent_key, sv[p].size_filter)
       IN  IF r.raised
           THEN Set(p, [sv[p] EXCEPT
                          !.pc = "close", !.outcome = "rem_failed", !.report = r.report,
                          !.log = @ \cup r.log \cup {LogEntry("failed_delete", sv[p].parent_key, NoKey, 0)}])
           ELSE Set(p, [sv[p] EXCEPT !.pc = "rem_insert", !.report = r.report,
                                     !.log = @ \cup r.log])
    /\ UNCHANGED <<analysis, calls, cuckoo_schema, indexes, next_oid, nsaves, options, found_by, call>>

\* a rejection for a non-string key after which the loop goes on
string_keys_goes_on == "rem_delete"

\* "return" in the handler of "documents must have only string keys"
string_keys_returns == "done"

\* The retry of the insert in the remediation loop.
RemInsert(p) ==
    /\ sv[p].pc = "rem_insert"
    /\ LET outcome == InsertOutcome(sv[p].report)
           top     == largest(sv[p].report)
           me      == [sv[p] EXCEPT !.ops = Append(@, "insert")]
       IN  CASE outcome = "ok" ->
                  /\ analysis' = analysis \cup {sv[p].report}
                  /\ Set(p, [me EXCEPT !.pc = "close", !.outcome = "remediated"])
             [] outcome = "string_keys" ->
                  /\ UNCHANGED analysis
                  /\ Set(p, [me EXCEPT !.pc = string_keys_returns, !.outcome = "rem_abort",
                                       !.log = @ \cup {LogEntry("int_key", NoKey, NoKey, 0)}])
             [] OTHER ->
                  /\ sv[p].retries < MaxRetries
                  /\ UNCHANGED analysis
                  /\ Set(p, [me EXCEPT
                               !.pc = "rem_delete", !.parent_key = top.key,
                               !.size_filter = @ - MEGABYTE, !.retries = @ + 1,
                               !.log = @ \cup {LogEntry("largest", top.key, NoKey, top.size \div MEGABYTE)}])
    /\ UNCHANGED <<calls, cuckoo_schema, indexes, next_oid, nsaves, options, found_by, call>>

\* loop_saver up to its loop: a document holding only the info section is
\* inserted; its rejection is not caught.
LoopSaverInsert(p) ==
    /\ sv[p].pc = "loop_saver"
    /\ LET report  == sv[p].report
           keys    == [i \in 1..Len(report.kv) |-> report.kv[i].k]
           rest    == SelectSeq(keys, LAMBDA k : k \notin {SK("_id"), SK("info")})
           minimal == Dict(<<Item(SK("info"), Get(report, SK("info"))),
                             Item(SK("_id"), Oid(next_oid))>>)
       IN  /\ next_oid' = next_oid + 1
           /\ IF InsertOutcome(minimal) # "ok"
              THEN /\ UNCHANGED analysis
                   /\ Set(p, [sv[p] EXCEPT !.pc = "raised", !.outcome = "raised",
                                           !.ops = Append(@, "insert")])
              ELSE /\ analysis' = analysis \cup {minimal}
                   /\ Set(p, [sv[p] EXCEPT
                                !.pc = IF rest = <<>> THEN "done" ELSE "loop_update",
                                !.outcome = "fallback",
                                !.keys = rest, !.obj_id = next_oid,
                                !.ops = Append(@, "insert")])
    /\ found_by' = found_by \cup {[id |-> next_oid, found |-> sv[p].find_ids]}
    /\ UNCHANGED <<calls, cuckoo_schema, indexes, nsaves, options, call>>

\* update_one({"_id": id}, {"$set": {key: val}}): "invalid" when the update
\* cannot be encoded or is too large to be sent (InvalidDocument), "failed"
\* when the store refuses the document it would produce, else "ok".
UpdateOutcome(id, key, val) ==
    IF key.ty # "str" \/ EncErr(val, FALSE) # "ok" \/ BsonSize(val) > MONGOSIZELIMIT
    THEN "invalid"
    ELSE IF \E d \in analysis : IdOf(d) = id /\ BsonSize(Put(d, key, val)) > MONGOSIZELIMIT
         THEN "failed"
         ELSE "ok"

update_one(id, key, val) ==
    {IF IdOf(d) = id THEN Put(d, key, val) ELSE d : d \in analysis}

\* One turn of the loop of loop_saver: the next section is set on the stored
\* document; an InvalidDocument is logged and the loop goes on.  loop_saver
\* and then run() return after the last section.
LoopSaverUpdate(p) ==
    /\ sv[p].pc = "loop_update"
    /\ LET key     == Head(sv[p].keys)
           val     == Get(sv[p].report, key)
           outcome == UpdateOutcome(sv[p].obj_id, key, val)
           pc      == IF Tail(sv[p].keys) = <<>> THEN "done" ELSE "loop_update"
       IN  CASE outcome = "ok" ->
                  /\ analysis' = update_one(sv[p].obj_id, key, val)
                  /\ Set(p, [sv[p] EXCEPT !.pc = pc, !.keys = Tail(@),
                                          !.ops = Append(@, "update")])
             [] outcome = "invalid" ->
                  /\ UNCHANGED analysis
                  /\ Set(p, [sv[p] EXCEPT !.pc = pc, !.keys = Tail(@),
                                          !.ops = Append(@, "update"),
                                          !.log = @ \cup {LogEntry("investigate", key, NoKey, 0)}])
             [] OTHER ->
                  /\ UNCHANGED analysis
                  /\ Set(p, [sv[p] EXCEPT !.pc = "raised", !.outcome = "raised",
                                          !.ops = Append(@, "update")])
    /\ UNCHANGED <<calls, cuckoo_schema, indexes, next_oid, nsaves, options, found_by, call>>

\* self.conn.close(), the last statement of run()
Close(p) ==
    /\ sv[p].pc = "close"
    /\ Set(p, [sv[p] EXCEPT !.pc = "done", !.conn = "closed"])
    /\ UNCHANGED <<analysis, calls, cuckoo_schema, indexes, next_oid, nsaves, options, found_by, call>>

\* The steps of run() after it is entered.
Step(p) ==
    \/ ListCollections(p)
    \/ SchemaStep(p)
    \/ InsertCalls(p)
    \/ CreateIndexes(p)
    \/ Find(p)
    \/ EvictCalls(p)
    \/ EvictDoc(p)
    \/ Insert(p)
    \/ RemDelete(p)
    \/ RemInsert(p)
    \/ LoopSaverInsert(p)
    \/ LoopSaverUpdate(p)
    \/ Close(p)

\* Saves that do not overlap: run() is entered only when no run() is in flight.
Next == Run(1) \/ Step(1)
Spec == Init /\ [][Next]_vars

\* The process that runs run() dies between the eviction of the prior
\* documents and the insert of the new one.
Crash(p) ==
    /\ sv[p].pc = "insert"
    /\ Set(p, [sv[p] EXCEPT !.pc = "crashed", !.outcome = "crashed"])
    /\ UNCHANGED <<analysis, calls, cuckoo_schema, indexes, next_oid, nsaves, options, found_by, call>>

\* Saves that do not overlap and that may crash before their insert.
NextCrash == Next \/ Crash(1)
SpecCrash == Init /\ [][NextCrash]_vars

\* Saves that run concurrently.
NextConcurrent == \E p \in Procs : RunConcurrently(p) \/ Step(p)
SpecConcurrent == Init /\ [][NextConcurrent]_vars

\* ----------------------------------------------- the helpers on their own
\* fix_int2str and debug_dict_size are called on a mapping outside of run().
InitFunctions ==
    /\ analysis = {}
    /\ calls = {}
    /\ cuckoo_schema = <<>>
    /\ indexes = {}
    /\ next_oid = 1
    /\ nsaves = 0
    /\ options = [fix_large_docs |-> FALSE]
    /\ found_by = {}
    /\ sv = [p \in Procs |-> IdleSaver]
    /\ call \in {[NoCall EXCEPT !.arg = t, !.dictionary = t] : t \in Trees}

\* fix_int2str(dictionary) is called, a first and a second time, on the
\* mapping that the call before left.
FixInt2Str ==
    /\ call.fn \in {"none", "fix_int2str"}
    /\ call.applied < 2
    /\ \E build \in Builds :
         LET r == fix_int2str(call.dictionary, build)
         IN  call' = [call EXCEPT !.fn = "fix_int2str",
                                  !.dictionary = r.v,
                                  !.raised = r.raised,
                                  !.applied = @ + 1,
                                  !.first = IF call.applied = 0 THEN r.v ELSE @]
    /\ UNCHANGED <<analysis, calls, cuckoo_schema, indexes, next_oid, nsaves, options, found_by, sv>>

\* debug_dict_size(dct) is called.
DebugDictSize ==
    /\ call.fn = "none"
    /\ ~debug_dict_size_raises(call.arg)
    /\ call' = [call EXCEPT !.fn = "debug_dict_size", !.sizes = debug_dict_size(call.arg)]
    /\ UNCHANGED <<analysis, calls, cuckoo_schema, indexes, next_oid, nsaves, options, found_by, sv>>

NextFunctions == FixInt2Str \/ DebugDictSize
SpecFunctions == InitFunctions /\ [][NextFunctions]_vars

\* ------------------------------------------------------------- properties
DocsOf(task) == {d \in analysis : TaskOf(d) = task}
Ended(p) == sv[p].pc \in {"done", "raised"}
Returned(p) == sv[p].pc = "done"
Count(ops, name) == Len(SelectSeq(ops, LAMBDA o : o = name))

\* This run had an insert of a document carrying its task identifier accepted.
Accepted(p) ==
    \/ sv[p].outcome \in {"stored", "fallback"}
    \/ sv[p].outcome = "remediated" /\ TaskOf(sv[p].report) = sv[p].task

C2_AtMostOnePerTask ==
    \A d1, d2 \in analysis :
        (TaskOf(d1) = TaskOf(d2) /\ TaskOf(d1) # 0) => d1 = d2

\* loop_saver is between two updates of the document it inserted, which
\* replaces a document stored before.
C2_Witness ==
    \E p \in Procs :
        /\ sv[p].pc = "loop_update"
        /\ sv[p].prior_ids # {}
        /\ DocsOf(sv[p].task) # {}

\* C3: a save that finds a schema marker of another version ends in an error
\* and changes nothing in the store after that.
C3_MismatchAborts ==
    \A p \in Procs :
        sv[p].mismatch => (sv[p].pc = "raised" /\ sv[p].ops = <<>>)

\* C4: no save ends with its connection open.
C4_ConnectionReleased ==
    \A p \in Procs : Ended(p) => sv[p].conn = "closed"

\* C5: when the direct insert is rejected for size and fix_large_docs is not
\* set, the save deletes nothing from its document, makes no other insert
\* and no update, goes on to close the connection only, and no document of
\* the task is stored.
C5_NoRemediationWithoutOption ==
    \A p \in Procs :
        (/\ ~options.fix_large_docs
         /\ sv[p].tried # Dict(<<>>)
         /\ InsertOutcome(sv[p].tried) = "too_large")
        => /\ sv[p].report = sv[p].tried
           /\ sv[p].pc \in {"close", "done"}
           /\ Count(sv[p].ops, "insert") = 1
           /\ Count(sv[p].ops, "update") = 0
           /\ sv[p].log = {LogEntry("largest", largest(sv[p].tried).key, NoKey,
                                    largest(sv[p].tried).size \div MEGABYTE)}
           /\ DocsOf(sv[p].task) = {}

\* A save whose direct insert was rejected for size has returned without
\* remediation, after it had evicted the document stored before.
C5_Witness ==
    \E p \in Procs :
        /\ Returned(p) /\ sv[p].outcome = "size_logged"
        /\ InsertOutcome(sv[p].tried) = "too_large"
        /\ sv[p].prior_ids # {}

\* C6: the remediation loop is left after at most ceiling / step retries
\* that were rejected for size.
C6_RetriesBounded ==
    \A p \in Procs : sv[p].retries <= MONGOSIZELIMIT \div MEGABYTE

\* The top-level fields that are a string larger than the ceiling without
\* which the document is below the ceiling.
OversizeFields(doc) ==
    {it.k : it \in {x \in Range(doc.kv) :
                      /\ x.v.t = "str" /\ x.v.len > MONGOSIZELIMIT
                      /\ BsonSize(Del(doc, x.k)) <= MONGOSIZELIMIT}}

\* C7: with fix_large_docs, the save of a document that is too large only
\* because of one top-level string stores the document without that field
\* and logs the field as deleted.
C7_OversizeFieldDropped ==
    \A p \in Procs :
        (options.fix_large_docs /\ Ended(p)) =>
            \A field \in OversizeFields(sv[p].results) :
                /\ sv[p].outcome \in {"stored", "remediated"}
                /\ \E d \in DocsOf(sv[p].task) : ~Has(d, field)
                /\ \E e \in sv[p].log : e.msg = "deleted" /\ field \in {e.key, e.child}

\* C8: once a save has passed the schema step there is exactly one schema
\* marker, also when saves run concurrently.
C8_OneSchemaMarker ==
    (\E p \in Procs : sv[p].pc \notin {"idle", "list_collections", "schema"})
        => Len(cuckoo_schema) = 1

\* What the find of the save that inserted the document with this _id found.
FoundBy(id) == (CHOOSE r \in found_by : r.id = id).found

\* C9: concurrent saves of one task are not serialized, and two documents of
\* one task are stored only by saves that overlapped: neither save found the
\* document of the other, so each read the collection before the other
\* inserted.
C9_DuplicatesOnlyFromOverlap ==
    \A d1, d2 \in analysis :
        (d1 # d2 /\ TaskOf(d1) = TaskOf(d2) /\ TaskOf(d1) # 0) =>
            /\ IdOf(d1) \notin FoundBy(IdOf(d2))
            /\ IdOf(d2) \notin FoundBy(IdOf(d1))

\* Two saves of one task have both had their direct insert accepted and the
\* analysis collection holds both documents.
C9_Witness ==
    \E p, q \in Procs :
        /\ p # q /\ Returned(p) /\ Returned(q)
        /\ sv[p].outcome = "stored" /\ sv[q].outcome = "stored"
        /\ sv[p].task = sv[q].task
        /\ {sv[p].report, sv[q].report} \subseteq analysis
        /\ sv[p].report # sv[q].report

\* C10: after a document that was saved and stored is saved again, the
\* analysis collection holds exactly one document of the task, every field of
\* it is the one the second save wrote, it references the call records of the
\* second save, and no call record of the first save remains.
C10_SecondSaveReplaces ==
    \A p \in Procs :
        (/\ Ended(p)
         /\ sv[p].prev.outcome \in {"stored", "remediated", "fallback"}
         /\ sv[p].prev.results = sv[p].results) =>
            /\ Cardinality(DocsOf(sv[p].task)) = 1
            /\ \A d \in DocsOf(sv[p].task) :
                   /\ CallsOf(d) = sv[p].new_calls
                   /\ \A it \in Range(d.kv) :
                          Has(sv[p].report, it.k) /\ Get(sv[p].report, it.k) = it.v
            /\ sv[p].prev.new_calls \cap calls = {}

\* C11: a save that crashed between the eviction and the insert leaves no
\* document of its task; after the next save of the task, which stores its
\* document, there is exactly one document of the task and no call record
\* of the crashed save or of the document it evicted.
C11_SelfHealingAfterCrash ==
    \A p \in Procs :
        /\ sv[p].pc = "crashed" => DocsOf(sv[p].task) = {}
        /\ (/\ Returned(p) /\ Accepted(p)
            /\ sv[p].prev.outcome = "crashed"
            /\ EffectiveTask(sv[p].prev.results) = sv[p].task)
           => /\ Cardinality(DocsOf(sv[p].task)) = 1
              /\ sv[p].prev.new_calls \cap calls = {}
              /\ sv[p].prev.prior_calls \cap calls = {}


\* C12: run() coerces the keys before it sends any data, so a document
\* with a non-string key ends stored, every key of the stored document is a
\* string, and no insert of the save is rejected for a non-string key.
C12_KeysCoercedBeforeInsert ==
    \A p \in Procs :
        (Ended(p) /\ EncErr(sv[p].results, FALSE) = "string_keys")
            => /\ InsertOutcome(sv[p].tried) # "string_keys"
               /\ \E d \in DocsOf(sv[p].task) : EncErr(d, FALSE) = "ok"


\* Every key of every mapping of val is a str.
RECURSIVE AllKeysStr(_)
AllKeysStr(val) ==
    CASE val.t = "dict" -> \A i \in 1..Len(val.kv) :
                               val.kv[i].k.ty = "str" /\ AllKeysStr(val.kv[i].v)
      [] val.t = "list" -> \A i \in 1..Len(val.els) : AllKeysStr(val.els[i])
      [] OTHER          -> TRUE

\* C13: after fix_int2str every key of the mapping, at every depth, is a
\* str, the keys of a mapping that is the value of a rewritten key included,
\* and a second call of fix_int2str changes nothing.
C13_AllKeysStrAndIdempotent ==
    call.fn = "fix_int2str"
        => /\ AllKeysStr(call.dictionary)
           /\ call.applied = 2 => call.dictionary = call.first


\* The scalars beneath val, through mappings and sequences, in document order.
RECURSIVE Scalars(_)
RECURSIVE ScalarsOfAll(_)
ScalarsOfAll(vals) ==
    IF vals = <<>> THEN <<>> ELSE Scalars(Head(vals)) \o ScalarsOfAll(Tail(vals))
Scalars(val) ==
    CASE val.t = "dict" -> ScalarsOfAll([i \in 1..Len(val.kv) |-> val.kv[i].v])
      [] val.t = "list" -> ScalarsOfAll(val.els)
      [] OTHER          -> <<val>>

\* The total length of the string scalars beneath val.
StringsBeneath(val) ==
    LET strs == SelectSeq(Scalars(val), LAMBDA x : x.t = "str")
    IN  SumSeq([i \in 1..Len(strs) |-> strs[i].len])

\* C14: debug_dict_size returns one (key, size) pair per top-level key of the
\* document, in non-increasing order of size; each size is the total length
\* of the string scalars beneath the key, the sizes add up to the total length
\* of the strings of the document, and the document is as it was.
C14_ProfilePerTopLevelKey ==
    call.fn = "debug_dict_size"
        => LET s == call.sizes
               d == call.arg
           IN  /\ Len(s) = Len(d.kv)
               /\ \A i \in 1..Len(d.kv) :
                      \E j \in 1..Len(s) : /\ s[j].key = d.kv[i].k
                                           /\ s[j].size = StringsBeneath(d.kv[i].v)
               /\ \A j \in 1..(Len(s) - 1) : s[j].size >= s[j + 1].size
               /\ SumSeq([j \in 1..Len(s) |-> s[j].size]) = StringsBeneath(d)
               /\ call.dictionary = d

\* debug_dict_size has profiled a document whose second key holds the longer
\* strings, its first key holding its strings inside a mapping or a list.
C14_Witness ==
    /\ call.fn = "debug_dict_size"
    /\ Len(call.sizes) = 2
    /\ call.arg.kv[1].v.t \in {"dict", "list"}
    /\ call.sizes[1].key = call.arg.kv[2].k
    /\ call.sizes[1].size > call.sizes[2].size
    /\ call.sizes[2].size > 0


\* The number of call-record deletes at the end of ops, after the last
\* deletion of a document.
RECURSIVE TrailingCalls(_)
TrailingCalls(ops) ==
    IF ops = <<>> \/ ops[Len(ops)] # "delete_calls" THEN 0
    ELSE 1 + TrailingCalls(SubSeq(ops, 1, Len(ops) - 1))

\* C15: a save deletes prior documents and their call records only before
\* its first insert of the new document, and it deletes a prior document only
\* after one bulk delete of call records for each process of that document.
C15_EvictionBeforeInsert ==
    [][\A p \in Procs :
          LET before == sv[p].ops
              after  == sv[p].ops'
          IN  /\ (Len(after) = Len(before) + 1
                    /\ after[Len(after)] \in {"delete_calls", "delete_doc"})
                 => Count(before, "insert") + Count(before, "update") = 0
              /\ after = Append(before, "delete_doc")
                 => /\ TrailingCalls(before) = Len(ProcessesOf(Head(sv[p].analyses)))
                    /\ CallsOf(Head(sv[p].analyses)) \cap calls = {}
                    /\ analysis' = analysis \ {Head(sv[p].analyses)}]_vars

\* A save has deleted the call records of the two processes of a prior
\* document, then the document, and has then inserted the new document.
C15_Witness ==
    \E p \in Procs :
        \E i \in 1..Len(sv[p].ops) :
            /\ i + 3 <= Len(sv[p].ops)
            /\ SubSeq(sv[p].ops, i, i + 3) = <<"delete_calls", "delete_calls", "delete_doc", "insert">>


\* The keys of a mapping.
KeysOf(d) == {d.kv[i].k : i \in 1..Len(d.kv)}

\* The sections of the report that loop_saver is to set: all but info and _id.
Sections(report) == KeysOf(report) \ {SK("info"), SK("_id")}

\* The sections whose update was logged as rejected.
Rejected(p) == {e.key : e \in {l \in sv[p].log : l.msg = "investigate"}}

\* C16: when the insert of the document is rejected for an unencodable value
\* or for a dot in a key, the save inserts a document that holds the info
\* section alone and issues one update for every other section; a rejected
\* update is logged and the later ones are still issued; the stored document
\* then holds info and the sections whose update was accepted, and no step of
\* the size remediation has run.
C16_FallbackStoresAcceptedSections ==
    \A p \in Procs :
        (Ended(p) /\ InsertOutcome(sv[p].tried) \in {"cannot_encode", "dot"})
            => /\ Count(sv[p].ops, "insert") = 2
               /\ Count(sv[p].ops, "update") = Cardinality(Sections(sv[p].report))
               /\ \E d \in analysis :
                      /\ IdOf(d) = sv[p].obj_id
                      /\ KeysOf(d) = {SK("info"), SK("_id")} \cup (Sections(sv[p].report) \ Rejected(p))
                      /\ \A k \in KeysOf(d) \ {SK("_id")} : Get(d, k) = Get(sv[p].report, k)
               /\ sv[p].retries = 0
               /\ \A l \in sv[p].log : l.msg = "investigate"


\* C17: when a retry of the insert in the remediation loop is rejected for a
\* key that is not a string, the save returns from that step: it deletes no
\* further key and attempts no further insert, and it has stored no document.
C17_NonStringKeyLeavesLoop ==
    /\ [](\A p \in Procs :
            sv[p].outcome = "rem_abort"
                => /\ sv[p].pc = "done"
                   /\ InsertOutcome(sv[p].tried) = "string_keys"
                   /\ sv[p].ops[Len(sv[p].ops)] = "insert"
                   /\ DocsOf(sv[p].task) = {})
    /\ [][\A p \in Procs :
            (sv[p].outcome # "rem_abort" /\ sv[p].outcome' = "rem_abort")
                => /\ sv[p].report' = sv[p].report
                   /\ analysis' = analysis
                   /\ sv[p].ops' = Append(sv[p].ops, "insert")]_vars

\* A save has left the remediation loop on a non-string key.
C17_Witness ==
    \E p \in Procs :
        /\ sv[p].outcome = "rem_abort"
        /\ Count(sv[p].ops, "insert") = 2
        /\ EncErr(sv[p].results, FALSE) = "string_keys"


\* No key of the mapping d holds more string characters than k does.
IsLargestKey(d, k) ==
    /\ k \in KeysOf(d)
    /\ \A k2 \in KeysOf(d) : StringsBeneath(Get(d, k2)) <= StringsBeneath(Get(d, k))

\* after is before without one key: a largest key of before, which holds
\* more than threshold characters and whose deletion from top is logged.
DeletedLargest(before, after, threshold, top, log) ==
    \E c \in KeysOf(before) :
        /\ after = Del(before, c)
        /\ IsLargestKey(before, c)
        /\ StringsBeneath(Get(before, c)) > threshold
        /\ LogEntry("deleted", top, c, StringsBeneath(Get(before, c))) \in log

\* C18: in the remediation loop the threshold is the ceiling less one
\* megabyte for each size-rejected retry so far; a pass deletes nested keys
\* only from the value of the largest top-level key of the document, only a
\* largest key of that mapping, or of an element of that sequence, that
\* holds more than the threshold, and it logs each deletion with the
\* top-level key, the nested key and the size.
C18_ThresholdAndDeletions ==
    /\ [](\A p \in Procs :
            sv[p].pc \in {"rem_delete", "rem_insert"}
                => sv[p].size_filter = MONGOSIZELIMIT - sv[p].retries * MEGABYTE)
    /\ [][\A p \in Procs :
            (sv[p].pc \in {"rem_delete", "rem_insert"} /\ sv[p].report' # sv[p].report)
                => LET before == sv[p].report
                       after  == sv[p].report'
                       top    == sv[p].parent_key
                   IN  /\ sv[p].pc = "rem_delete"
                       /\ IsLargestKey(before, top)
                       /\ KeysOf(after) = KeysOf(before)
                       /\ \A k \in KeysOf(before) \ {top} : Get(after, k) = Get(before, k)
                       /\ IF Get(before, top).t = "list"
                          THEN /\ Get(after, top).t = "list"
                               /\ Len(Get(after, top).els) = Len(Get(before, top).els)
                               /\ \A j \in 1..Len(Get(before, top).els) :
                                      \/ Get(after, top).els[j] = Get(before, top).els[j]
                                      \/ DeletedLargest(Get(before, top).els[j],
                                                        Get(after, top).els[j],
                                                        sv[p].size_filter, top, sv[p].log')
                          ELSE DeletedLargest(Get(before, top), Get(after, top),
                                              sv[p].size_filter, top, sv[p].log')]_vars

\* A pass has deleted a nested key that holds no more than the ceiling: the
\* threshold had been lowered by a size-rejected retry before.
C18_Witness ==
    \E p \in Procs :
        /\ sv[p].retries >= 1
        /\ \E l \in sv[p].log : l.msg = "deleted" /\ l.size <= MONGOSIZELIMIT


\* The call records that no process of a stored document references.
Orphans == {c \in calls : ~\E d \in analysis : c \in CallsOf(d)}

\* C19: when a save has returned, whatever its outcome, every call record
\* of the calls collection is referenced by a process of a document of the
\* analysis collection.
C19_NoOrphanedCalls ==
    \A p \in Procs : Returned(p) => Orphans = {}


\* The stored documents of the tasks other than task.
OthersOf(task) == {d \in analysis : TaskOf(d) # task}

\* The stored call records that documents of other tasks reference and no
\* document of task does.
CallsOfOthersOnly(task) ==
    {c \in calls : /\ \E d \in OthersOf(task) : c \in CallsOf(d)
                   /\ ~\E d \in DocsOf(task) : c \in CallsOf(d)}

\* C20: no step of a save of a task, on any path and however the saves of
\* other tasks interleave with it, changes a stored document of another task
\* or removes a call record that only documents of other tasks reference.
C20_OtherTasksUntouched ==
    [][\A p \in Procs :
          sv[p]' # sv[p]
              => LET task == sv[p].task'
                 IN  /\ OthersOf(task) \subseteq analysis'
                     /\ CallsOfOthersOnly(task) \subseteq calls']_vars

\* A save has stored its document, run next to a save of another task whose
\* document and call records are stored.
C20_Witness ==
    \E p \in Procs : \E d \in analysis :
        /\ Returned(p) /\ Accepted(p)
        /\ TaskOf(d) # sv[p].task
        /\ CallsOf(d) # {} /\ CallsOf(d) \subseteq calls
        /\ \E q \in Procs \ {p} : sv[q].outcome = "stored" /\ sv[q].task = TaskOf(d)

====
